---- MODULE Spec2Model ----
(***************************************************************************)
(* A model of the overseerr-mcp tool layer (src/src/server.py) and of its  *)
(* two upstream clients (src/src/tools/overseerr_client.py,                *)
(* src/src/tools/plex_client.py).                                          *)
(*                                                                         *)
(* Python strings are sequences of one-character strings, Optional[str] is *)
(* a record [none, s], an exception is a record [type, text, status,       *)
(* wraps], and every handler is an operator from its arguments and the     *)
(* replies the upstream gives to the calls it issues to the list of HTTP   *)
(* calls it made and its result.                                           *)
(***************************************************************************)
EXTENDS Integers, Sequences, FiniteSets, TLC

VARIABLES
    environ,    \* os.environ: OVERSEERR_URL and OVERSEERR_API_KEY
    _client,    \* server.py module global: "None" or "OverseerrClient"
    last,       \* the tool invocation that ran last: arguments, HTTP calls, result
    repeat,     \* whether that invocation repeated the one before it, and agreed
    _sections_cache,    \* PlexClient._sections_cache: None or the cached sections
    tasks,              \* the catalog-client invocations, each at its await or done
    sections_requests,  \* how many GET /library/sections the catalog client has sent
    cache_writes        \* every value assigned to _sections_cache, in order

toolvars == <<environ, _client, last, repeat>>

plexvars == <<_sections_cache, tasks, sections_requests, cache_writes>>

vars == <<environ, _client, last, repeat,
          _sections_cache, tasks, sections_requests, cache_writes>>

(* ------------------------------ bounds --------------------------------- *)

\* longest season listing of a TV detail reply
MaxSeasons == 4

\* most matches one catalog section returns for a query
MaxMatches == 30

\* longest batch a list endpoint of the request service returns
MaxItems == 3

\* longest batch of requests whose titles are enriched
MaxEnriched == 2

(* --------------------------- Python values ----------------------------- *)

None == [none |-> TRUE, s |-> <<>>]

Str(s) == [none |-> FALSE, s |-> s]

\* truth value of an Optional[str]: None and "" are falsy
Truthy(o) == ~o.none /\ Len(o.s) > 0

Min(S) == CHOOSE x \in S : \A y \in S : x <= y

UpperCase == <<"A","B","C","D","E","F","G","H","I","J","K","L","M",
               "N","O","P","Q","R","S","T","U","V","W","X","Y","Z">>

LowerCase == <<"a","b","c","d","e","f","g","h","i","j","k","l","m",
               "n","o","p","q","r","s","t","u","v","w","x","y","z">>

\* str.lower()
Lower(s) ==
    [i \in 1..Len(s) |->
        IF \E k \in 1..26 : UpperCase[k] = s[i]
        THEN LowerCase[CHOOSE k \in 1..26 : UpperCase[k] = s[i]]
        ELSE s[i]]

Whitespace == {" ", "\t", "\n"}

\* str.strip()
Strip(s) ==
    LET keep == {i \in 1..Len(s) : s[i] \notin Whitespace}
    IN  IF keep = {} THEN <<>>
        ELSE SubSeq(s, Min(keep), CHOOSE i \in keep : \A j \in keep : j <= i)

\* str.rstrip("/")
RStripSlash(s) ==
    LET keep == {i \in 1..Len(s) : s[i] # "/"}
    IN  IF keep = {} THEN <<>>
        ELSE SubSeq(s, 1, CHOOSE i \in keep : \A j \in keep : j <= i)

RECURSIVE Split(_, _)
\* str.split(sep): always at least one piece, empty pieces kept
Split(s, sep) ==
    LET at == {i \in 1..Len(s) : s[i] = sep}
    IN  IF at = {} THEN <<s>>
        ELSE <<SubSeq(s, 1, Min(at) - 1)>> \o Split(SubSeq(s, Min(at) + 1, Len(s)), sep)

Digits == <<"0","1","2","3","4","5","6","7","8","9">>

IsDigit(c) == \E k \in 1..10 : Digits[k] = c

DigitValue(c) == (CHOOSE k \in 1..10 : Digits[k] = c) - 1

RECURSIVE DecimalValue(_)
DecimalValue(s) ==
    IF s = <<>> THEN 0
    ELSE 10 * DecimalValue(SubSeq(s, 1, Len(s) - 1)) + DigitValue(s[Len(s)])

\* int(str): surrounding whitespace ignored, an optional sign, then decimal
\* digits; anything else raises ValueError (ok = FALSE)
ParseInt(s) ==
    LET t == Strip(s)
        signed == t # <<>> /\ t[1] \in {"+", "-"}
        d == IF signed THEN Tail(t) ELSE t
    IN  IF d # <<>> /\ \A i \in 1..Len(d) : IsDigit(d[i])
        THEN [ok |-> TRUE,
              value |-> IF signed /\ t[1] = "-" THEN 0 - DecimalValue(d) ELSE DecimalValue(d)]
        ELSE [ok |-> FALSE, value |-> 0]

RECURSIVE IntToStr(_)
\* str(int) for a non-negative integer
IntToStr(n) ==
    IF n < 10 THEN <<Digits[n + 1]>>
    ELSE IntToStr(n \div 10) \o <<Digits[(n % 10) + 1]>>

\* seq[:n]
Take(seq, n) == SubSeq(seq, 1, IF Len(seq) < n THEN Len(seq) ELSE n)

(* ----------------------------- exceptions ------------------------------ *)

NoExc == [type |-> "none", text |-> "", status |-> 0, body |-> "", wraps |-> <<>>]

Exc(type, text) == [type |-> type, text |-> text, status |-> 0, body |-> "", wraps |-> <<>>]

\* ToolError(f"<prefix>: {str(e)}"): the message of e behind one more prefix
ToolError(prefix, e) ==
    [type |-> "ToolError", text |-> e.text, status |-> e.status, body |-> e.body,
     wraps |-> <<prefix>> \o e.wraps]

\* pydantic's ValidationError is a ValueError
IsValueError(e) == e.type \in {"ValueError", "ValidationError"}

NoValue == [none |-> TRUE]

Return(v) == [ok |-> TRUE, value |-> v, exc |-> NoExc]

Raise(e) == [ok |-> FALSE, value |-> NoValue, exc |-> e]

(* ---------------------------- domain model ----------------------------- *)

MOVIE == "movie"

TV == "tv"

\* MediaType(value): the enum member with that value, else ValueError
MediaType(s) ==
    IF s = <<"m","o","v","i","e">> THEN Return(MOVIE)
    ELSE IF s = <<"t","v">> THEN Return(TV)
    ELSE Raise(Exc("ValueError", "is not a valid MediaType"))

(* ---------------------------- HTTP replies ----------------------------- *)

\* what the upstream does with one request: it answers with a status and a
\* body, or the transport fails (aiohttp.ClientError)
ClientErrorReply == [kind |-> "client_error", status |-> 0, json |-> NoValue, text |-> ""]

\* the upstream does not answer in time: the session raises
\* asyncio.TimeoutError, which is no aiohttp.ClientError
TimeoutReply == [kind |-> "timeout", status |-> 0, json |-> NoValue, text |-> ""]

HttpReply(status, json) == [kind |-> "http", status |-> status, json |-> json, text |-> ""]

HttpErrorReply(status) ==
    [kind |-> "http", status |-> status, json |-> NoValue, text |-> "error body"]

ErrorStatuses == {400, 401, 403, 404, 500}

FailureReplies == {HttpErrorReply(s) : s \in ErrorStatuses} \cup {ClientErrorReply}

\* OverseerrClient._request: classify one reply
OverseerrRequest_No401(reply) ==
    IF reply.kind = "client_error" THEN Raise(Exc("OverseerrError", "Connection error"))
    ELSE IF reply.kind = "timeout" THEN Raise(Exc("TimeoutError", ""))
    ELSE IF reply.status = 404 THEN Raise(Exc("OverseerrError", "Resource not found"))
    ELSE IF reply.status >= 400
         THEN Raise([Exc("OverseerrError", "API error")
                        EXCEPT !.status = reply.status, !.body = reply.text])
    ELSE Return(reply.json)

OverseerrRequest(reply) ==
    IF reply.kind = "client_error" THEN Raise(Exc("OverseerrError", "Connection error"))
    ELSE IF reply.kind = "timeout" THEN Raise(Exc("TimeoutError", ""))
    ELSE IF reply.status = 401 THEN Raise(Exc("OverseerrError", "Invalid API key"))
    ELSE IF reply.status = 404 THEN Raise(Exc("OverseerrError", "Resource not found"))
    ELSE IF reply.status >= 400
         THEN Raise([Exc("OverseerrError", "API error")
                        EXCEPT !.status = reply.status, !.body = reply.text])
    ELSE Return(reply.json)

\* PlexClient._request
PlexRequest(reply) ==
    IF reply.kind = "client_error" THEN Raise(Exc("PlexError", "Connection error"))
    ELSE IF reply.status = 401 THEN Raise(Exc("PlexError", "Invalid Plex token"))
    ELSE IF reply.status >= 400
         THEN Raise([Exc("PlexError", "Plex API error")
                        EXCEPT !.status = reply.status, !.body = reply.text])
    ELSE Return(reply.json)

NoPayload == [none |-> TRUE]

\* one HTTP request as the upstream saw it, with what _request made of the reply
Call(client, method, path, id, payload, reply, outcome) ==
    [client |-> client, method |-> method, path |-> path, id |-> id,
     payload |-> payload, reply |-> reply, raised |-> outcome.exc]

(* --------------------------- client set-up ----------------------------- *)

\* OverseerrClient.__init__ with no explicit arguments
OverseerrClientInit(env) ==
    IF RStripSlash(env.OVERSEERR_URL) = <<>>
    THEN Raise(Exc("OverseerrError", "OVERSEERR_URL not configured"))
    ELSE IF env.OVERSEERR_API_KEY = <<>>
    THEN Raise(Exc("OverseerrError", "OVERSEERR_API_KEY not configured"))
    ELSE Return("OverseerrClient")

\* get_client storing a client although its construction failed
get_client_StoreOnFailure(cl, env) ==
    IF cl # "None" THEN [ok |-> TRUE, client |-> cl, exc |-> NoExc]
    ELSE LET made == OverseerrClientInit(env)
         IN  IF made.ok THEN [ok |-> TRUE, client |-> made.value, exc |-> NoExc]
             ELSE [ok |-> FALSE, client |-> "OverseerrClient",
                   exc |-> ToolError("Configuration error", made.exc)]

\* server.get_client: [ok, client (the new value of _client), exc]
get_client(cl, env) ==
    IF cl # "None" THEN [ok |-> TRUE, client |-> cl, exc |-> NoExc]
    ELSE LET made == OverseerrClientInit(env)
         IN  IF made.ok THEN [ok |-> TRUE, client |-> made.value, exc |-> NoExc]
             ELSE [ok |-> FALSE, client |-> "None",
                   exc |-> ToolError("Configuration error", made.exc)]

(* ------------------------- upstream detail JSON ------------------------ *)

\* the "mediaInfo" block of a detail reply; none = the key is absent
NoMediaInfo == [none |-> TRUE, status |-> 1, requests |-> <<>>, seasons |-> <<>>]

MediaInfoBlock(status, requests, seasons) ==
    [none |-> FALSE, status |-> status, requests |-> requests, seasons |-> seasons]

\* GET /movie/{id} and GET /tv/{id} reply bodies, reduced to the keys the
\* handlers branch on: "seasons" (each with its seasonNumber; an absent
\* seasonNumber reads as 0) and "mediaInfo".  Title, year, tagline, overview,
\* genres, rating and episode counts are copied through and left out.
DetailBody(seasons, mediaInfo) == [seasons |-> seasons, mediaInfo |-> mediaInfo]

(* ------------------- request_media: per-season status ------------------ *)

\* season_statuses.get(season_num, 1) over the dict built from
\* mediaInfo.seasons: the last entry for a season number wins
SeasonStatusCode(info_seasons, season_num) ==
    LET at == {i \in 1..Len(info_seasons) : info_seasons[i].seasonNumber = season_num}
    IN  IF at = {} THEN 1
        ELSE info_seasons[CHOOSE i \in at : \A j \in at : j <= i].status

\* status_map.get(status_code, "Unknown")
status_map(status_code) ==
    CASE status_code = 1 -> "Not Requested"
      [] status_code = 2 -> "Requested"
      [] status_code = 3 -> "Processing"
      [] status_code = 4 -> "Partially Available"
      [] status_code = 5 -> "Available"
      [] OTHER -> "Unknown"

\* the loop over details["seasons"]: specials (season 0) are skipped
SeasonDetails(details) ==
    LET regular == SelectSeq(details.seasons, LAMBDA s : s.seasonNumber # 0)
    IN  [i \in 1..Len(regular) |->
            [season |-> regular[i].seasonNumber,
             status |-> status_map(SeasonStatusCode(details.mediaInfo.seasons,
                                                     regular[i].seasonNumber))]]

(* ----------------------- request_media: preview ------------------------ *)

\* `if not confirm:` the handler answers with the preview and returns
IsPreview_Never(confirm) == FALSE

IsPreview_Always(confirm) == TRUE

IsPreview(confirm) == ~confirm

\* not_requested[:3]
SuggestedSeasons_All(not_requested) == not_requested

SuggestedSeasons(not_requested) == Take(not_requested, 3)

Message(text, seasons) == [text |-> text, seasons |-> seasons]

\* the preview dict: selected_seasons is None when the key is not set
Preview(mt, season_details, seasons) ==
    LET base == [preview |-> TRUE, type |-> mt, seasons |-> season_details,
                 selected_seasons |-> None,
                 message |-> Message("Call again with confirm=true to submit this request", <<>>)]
        picked == SelectSeq(season_details, LAMBDA s : s.status = "Not Requested")
        not_requested == [i \in 1..Len(picked) |-> picked[i].season]
    IN  IF mt # TV THEN base
        ELSE IF Truthy(seasons)
        THEN [base EXCEPT !.selected_seasons = seasons]
        ELSE IF Len(season_details) = 1
        THEN [base EXCEPT
                !.selected_seasons = Str(IntToStr(season_details[1].season)),
                !.message = Message("Call again with confirm=true to request season", <<1>>)]
        ELSE IF not_requested # <<>>
        THEN [base EXCEPT
                !.message = Message("Specify seasons to request",
                                    SuggestedSeasons(not_requested))]
        ELSE [base EXCEPT
                !.message = Message("All seasons already requested/available", <<>>)]

(* ----------------------- request_media: confirm ------------------------ *)

NoList == [none |-> TRUE, list |-> <<>>]

SomeList(l) == [none |-> FALSE, list |-> l]

\* [int(s.strip()) for s in seasons.split(",")]
ParseSeasonList(s) ==
    LET pieces == Split(s, ",")
        parsed == [i \in 1..Len(pieces) |-> ParseInt(Strip(pieces[i]))]
    IN  IF \A i \in 1..Len(pieces) : parsed[i].ok
        THEN Return([i \in 1..Len(pieces) |-> parsed[i].value])
        ELSE Raise(Exc("ValueError", "invalid literal for int()"))

Selection(season_list, seasons_requested) ==
    [ok |-> TRUE, season_list |-> season_list,
     seasons_requested |-> seasons_requested, exc |-> NoExc]

NoSelection(e) ==
    [ok |-> FALSE, season_list |-> NoList, seasons_requested |-> None, exc |-> e]

\* the season selection of a confirmed request
ResolveSeasons_Guess(mt, seasons, season_details) ==
    IF mt # TV THEN Selection(NoList, None)
    ELSE IF Truthy(seasons) /\ Lower(seasons.s) = <<"a","l","l">>
    THEN Selection(NoList, Str(<<"a","l","l">>))
    ELSE IF Truthy(seasons)
    THEN LET parsed == ParseSeasonList(seasons.s)
         IN  IF parsed.ok THEN Selection(SomeList(parsed.value), seasons)
             ELSE NoSelection(parsed.exc)
    ELSE IF Len(season_details) = 1
    THEN Selection(SomeList(<<season_details[1].season>>),
                   Str(IntToStr(season_details[1].season)))
    ELSE Selection(NoList, None)

ResolveSeasons(mt, seasons, season_details) ==
    IF mt # TV THEN Selection(NoList, None)
    ELSE IF Truthy(seasons) /\ Lower(seasons.s) = <<"a","l","l">>
    THEN Selection(NoList, Str(<<"a","l","l">>))
    ELSE IF Truthy(seasons)
    THEN LET parsed == ParseSeasonList(seasons.s)
         IN  IF parsed.ok THEN Selection(SomeList(parsed.value), seasons)
             ELSE NoSelection(parsed.exc)
    ELSE IF Len(season_details) = 1
    THEN Selection(SomeList(<<season_details[1].season>>),
                   Str(IntToStr(season_details[1].season)))
    ELSE NoSelection(Exc("ToolError", "Please specify which seasons to request"))

\* OverseerrClient.request_media: the JSON body of POST /request
RequestPayload_AlwaysAll(media_type, tmdb_id, seasons) ==
    [none |-> FALSE, mediaType |-> media_type, mediaId |-> tmdb_id,
     seasons |-> IF media_type = TV THEN [kind |-> "all", list |-> <<>>]
                 ELSE [kind |-> "absent", list |-> <<>>]]

RequestPayload(media_type, tmdb_id, seasons) ==
    [none |-> FALSE, mediaType |-> media_type, mediaId |-> tmdb_id,
     seasons |-> IF media_type = TV /\ ~seasons.none /\ seasons.list # <<>>
                 THEN [kind |-> "list", list |-> seasons.list]
                 ELSE IF media_type = TV THEN [kind |-> "all", list |-> <<>>]
                 ELSE [kind |-> "absent", list |-> <<>>]]

\* RequestResponse(**data): a body that does not fit the schema raises
\* pydantic's ValidationError
RequestResponse(data) ==
    IF data.valid THEN Return(data) ELSE Raise(Exc("ValidationError", "RequestResponse"))

\* the except clauses of server.request_media
RequestMediaExcept(e) ==
    IF e.type = "OverseerrError" THEN ToolError("Request failed", e)
    ELSE IF IsValueError(e) THEN ToolError("Invalid input", e)
    ELSE ToolError("Unexpected error", e)

\* MediaType(media_type.lower()) of the two tools that take a media_type
ParseMediaType_Lenient(media_type) ==
    IF MediaType(Lower(media_type)).ok THEN MediaType(Lower(media_type)) ELSE Return(TV)

ParseMediaType(media_type) == MediaType(Lower(media_type))

\* what one run of a handler leaves behind
Done(cl, calls, result) == [client |-> cl, calls |-> calls, result |-> result]

\* server.request_media; dreply answers the detail fetch, creply the POST
request_media(cl, env, tmdb_id, media_type, seasons, confirm, dreply, creply) ==
    LET gc == get_client(cl, env)
        mt == ParseMediaType(media_type)
        path == IF mt.value = MOVIE THEN "/movie" ELSE "/tv"
        details == OverseerrRequest(dreply)
        get == Call("overseerr", "GET", path, tmdb_id, NoPayload, dreply, details)
        season_details == IF mt.value = TV THEN SeasonDetails(details.value) ELSE <<>>
        picked == ResolveSeasons(mt.value, seasons, season_details)
        payload == RequestPayload(mt.value, tmdb_id, picked.season_list)
        data == OverseerrRequest(creply)
        post == Call("overseerr", "POST", "/request", 0, payload, creply, data)
        created == IF data.ok THEN RequestResponse(data.value) ELSE data
    IN  IF ~gc.ok THEN Done(gc.client, <<>>, Raise(RequestMediaExcept(gc.exc)))
        ELSE IF ~mt.ok THEN Done(gc.client, <<>>, Raise(RequestMediaExcept(mt.exc)))
        ELSE IF ~details.ok
        THEN Done(gc.client, <<get>>, Raise(RequestMediaExcept(details.exc)))
        ELSE IF IsPreview(confirm)
        THEN Done(gc.client, <<get>>, Return(Preview(mt.value, season_details, seasons)))
        ELSE IF ~picked.ok
        THEN Done(gc.client, <<get>>, Raise(RequestMediaExcept(picked.exc)))
        ELSE IF ~created.ok
        THEN Done(gc.client, <<get, post>>, Raise(RequestMediaExcept(created.exc)))
        ELSE Done(gc.client, <<get, post>>,
                  Return([success |-> TRUE, request_id |-> created.value.id,
                          type |-> created.value.type,
                          seasons_requested |-> picked.seasons_requested]))

(* ------------------------------ health_check --------------------------- *)

\* the except clauses of server.health_check: every exception becomes a result
HealthCheckExcept_Propagate(e) ==
    IF e.type = "OverseerrError" THEN Return([status |-> "unhealthy", error |-> e])
    ELSE Raise(e)

HealthCheckExcept(e) ==
    IF e.type = "OverseerrError" THEN Return([status |-> "unhealthy", error |-> e])
    ELSE Return([status |-> "error", error |-> e])

\* server.health_check; sreply answers GET /status.  status.get(...) on a
\* body that is not a JSON object raises AttributeError
health_check(cl, env, sreply) ==
    LET gc == get_client(cl, env)
        status == OverseerrRequest(sreply)
        get == Call("overseerr", "GET", "/status", 0, NoPayload, sreply, status)
    IN  IF ~gc.ok THEN Done(gc.client, <<>>, HealthCheckExcept(gc.exc))
        ELSE IF ~status.ok THEN Done(gc.client, <<get>>, HealthCheckExcept(status.exc))
        ELSE IF ~status.value.object
        THEN Done(gc.client, <<get>>,
                  HealthCheckExcept(Exc("AttributeError", "object has no attribute 'get'")))
        ELSE Done(gc.client, <<get>>, Return([status |-> "healthy", error |-> NoExc]))

(* ---------------------------- get_media_status ------------------------- *)

\* MediaStatus(status_val), UNKNOWN (1) when the code is no member
MediaStatus(status_val) == IF status_val \in 1..5 THEN status_val ELSE 1

\* models.get_media_status_text
get_media_status_text(status) ==
    CASE status = 1 -> "Not Requested"
      [] status = 2 -> "Requested"
      [] status = 3 -> "Processing"
      [] status = 4 -> "Partially Available"
      [] status = 5 -> "Available"
      [] OTHER -> "Unknown"

\* request_status_map.get(req_status, "Unknown")
request_status_map(req_status) ==
    CASE req_status = 1 -> "Pending"
      [] req_status = 2 -> "Approved"
      [] req_status = 3 -> "Declined"
      [] OTHER -> "Unknown"

\* OverseerrClient.get_media_status on the detail JSON; "None" is Python's
\* None, seasons_count is -1 when the key is not set (a movie)
MediaStatusResult(tmdb_id, media_type, data) ==
    LET media_info == data.mediaInfo
        status == IF media_info.none THEN 1 ELSE MediaStatus(media_info.status)
        requests == media_info.requests
    IN  [tmdb_id |-> tmdb_id, media_type |-> media_type,
         status |-> status, status_text |-> get_media_status_text(status),
         has_request |-> Len(requests) > 0,
         request_status |-> IF Len(requests) > 0
                            THEN request_status_map(requests[Len(requests)])
                            ELSE "None",
         seasons_count |-> IF media_type = TV
                           THEN Len(SelectSeq(data.seasons, LAMBDA s : s.seasonNumber > 0))
                           ELSE 0 - 1]

\* the except clauses of server.get_media_status
GetMediaStatusExcept(e) ==
    IF e.type = "OverseerrError" THEN ToolError("Status check failed", e)
    ELSE IF IsValueError(e) THEN ToolError("Invalid input", e)
    ELSE ToolError("Unexpected error", e)

\* server.get_media_status; dreply answers the detail fetch
get_media_status(cl, env, tmdb_id, media_type, dreply) ==
    LET gc == get_client(cl, env)
        mt == ParseMediaType(media_type)
        path == IF mt.value = MOVIE THEN "/movie" ELSE "/tv"
        data == OverseerrRequest(dreply)
        get == Call("overseerr", "GET", path, tmdb_id, NoPayload, dreply, data)
    IN  IF ~gc.ok THEN Done(gc.client, <<>>, Raise(GetMediaStatusExcept(gc.exc)))
        ELSE IF ~mt.ok THEN Done(gc.client, <<>>, Raise(GetMediaStatusExcept(mt.exc)))
        ELSE IF ~data.ok THEN Done(gc.client, <<get>>, Raise(GetMediaStatusExcept(data.exc)))
        ELSE Done(gc.client, <<get>>,
                  Return(MediaStatusResult(tmdb_id, mt.value, data.value)))

(* ------------------- request service: list operations ------------------ *)

\* one item of the "results" of GET /search, reduced to what the client
\* reads: "id", "mediaType" ("" when absent), whether the rest of it is what
\* MediaSearchResult requires, and "mediaInfo"
SearchItem(id, mediaType, valid, mediaInfo) ==
    [id |-> id, mediaType |-> mediaType, valid |-> valid, mediaInfo |-> mediaInfo]

\* MediaSearchResult(**item)
MediaSearchResult(item) ==
    IF item.valid THEN Return(item)
    ELSE Raise(Exc("ValidationError", "MediaSearchResult"))

\* the entry search_media builds for a parsed hit; title, year, overview and
\* voteAverage are copied through and left out
SearchEntry(parsed, media_info) ==
    LET status == IF media_info.none THEN 1 ELSE MediaStatus(media_info.status)
    IN  [id |-> parsed.id, mediaType |-> parsed.mediaType,
         status |-> status, status_text |-> get_media_status_text(status)]

RECURSIVE SearchResults(_, _)
\* OverseerrClient.search_media, the loop over the hits; media_type is "None"
\* or a MediaType
SearchResults(items, media_type) ==
    IF items = <<>> THEN <<>>
    ELSE LET item == Head(items)
             rest == SearchResults(Tail(items), media_type)
             parsed == MediaSearchResult(item)
         IN  IF media_type # "None" /\ item.mediaType # media_type THEN rest
             ELSE IF item.mediaType \notin {"movie", "tv"} THEN rest
             ELSE IF ~parsed.ok THEN rest
             ELSE <<SearchEntry(parsed.value, item.mediaInfo)>> \o rest

\* query parameters of a list request
Params(take, filter) == [none |-> FALSE, take |-> take, filter |-> filter]

\* OverseerrClient.search_media; reply answers GET /search
client_search_media(media_type, reply) ==
    LET data == OverseerrRequest(reply)
        get == Call("overseerr", "GET", "/search", 0, NoPayload, reply, data)
    IN  IF ~data.ok THEN Done("OverseerrClient", <<get>>, data)
        ELSE Done("OverseerrClient", <<get>>, Return(SearchResults(data.value, media_type)))

\* one user as upstream sends it: "id", whether UserInfo accepts it, and the
\* display name UserInfo.name resolves
UserItem(id, valid, name) == [id |-> id, valid |-> valid, name |-> name]

\* UserInfo(**item)
UserInfo(item) ==
    IF item.valid THEN Return([id |-> item.id, name |-> item.name])
    ELSE Raise(Exc("ValidationError", "UserInfo"))

RECURSIVE ParsedUsers(_)
\* OverseerrClient.get_users, the loop: the items UserInfo accepts
ParsedUsers(items) ==
    IF items = <<>> THEN <<>>
    ELSE IF UserInfo(Head(items)).ok
         THEN <<UserInfo(Head(items)).value>> \o ParsedUsers(Tail(items))
         ELSE ParsedUsers(Tail(items))

\* get_users asks for this many users
UsersTake == 100

\* OverseerrClient.get_users; reply answers GET /user
client_get_users(reply) ==
    LET data == OverseerrRequest(reply)
        get == Call("overseerr", "GET", "/user", 0, Params(UsersTake, "None"), reply, data)
    IN  IF ~data.ok THEN Done("OverseerrClient", <<get>>, data)
        ELSE Done("OverseerrClient", <<get>>, Return(ParsedUsers(data.value)))

\* OverseerrClient.get_user; reply answers GET /user/{user_id}
get_user(user_id, reply) ==
    LET data == OverseerrRequest(reply)
        get == Call("overseerr", "GET", "/user", user_id, NoPayload, reply, data)
    IN  IF ~data.ok THEN Done("OverseerrClient", <<get>>, data)
        ELSE Done("OverseerrClient", <<get>>, UserInfo(data.value))

\* a datetime: wall-clock reading in hours, and its UTC offset in hours when
\* it is timezone-aware
DateTime(wall, aware, offset) == [none |-> FALSE, wall |-> wall, aware |-> aware, offset |-> offset]

\* since=None
NoSince == [none |-> TRUE, wall |-> 0, aware |-> FALSE, offset |-> 0]

\* dt.replace(tzinfo=None) if dt.tzinfo else dt: the same wall-clock reading
\* without its offset
StripTz(dt) == IF dt.aware THEN [dt EXCEPT !.aware = FALSE, !.offset = 0] ELSE dt

\* the "media" block of a request: absent, or [tmdbId (0 for None), status
\* code (0 when absent)]
NoMedia == [none |-> TRUE, tmdbId |-> 0, status |-> 0]

Media(tmdbId, status) == [none |-> FALSE, tmdbId |-> tmdbId, status |-> status]

\* the "requestedBy" block of a request; id 0 when the block is absent
NoUser == [none |-> TRUE, id |-> 0]

RequestedBy(id) == [none |-> FALSE, id |-> id]

\* one item of the "results" of GET /request: "id", whether its required
\* keys are there and well-typed, "status", "createdAt", "type", "media",
\* "requestedBy"
RequestItem(id, valid, status, createdAt, type, media, requestedBy) ==
    [id |-> id, valid |-> valid, status |-> status, createdAt |-> createdAt,
     type |-> type, media |-> media, requestedBy |-> requestedBy]

\* MediaRequest(**item): status must be a RequestStatus, and media.status,
\* when there is one, a MediaStatus
MediaRequest(item) ==
    IF ~item.valid \/ item.status \notin 1..3
       \/ (~item.media.none /\ item.media.status \notin 0..5)
    THEN Raise(Exc("ValidationError", "MediaRequest"))
    ELSE Return(item)

RECURSIVE ParsedRequests(_)
\* OverseerrClient.get_requests, the loop: the items MediaRequest accepts
ParsedRequests(items) ==
    IF items = <<>> THEN <<>>
    ELSE IF MediaRequest(Head(items)).ok
         THEN <<MediaRequest(Head(items)).value>> \o ParsedRequests(Tail(items))
         ELSE ParsedRequests(Tail(items))

\* OverseerrClient.get_requests; status is "None" or the filter, reply
\* answers GET /request
client_get_requests(status, take, reply) ==
    LET data == OverseerrRequest(reply)
        get == Call("overseerr", "GET", "/request", 0, Params(take, status), reply, data)
    IN  IF ~data.ok THEN Done("OverseerrClient", <<get>>, data)
        ELSE Done("OverseerrClient", <<get>>, Return(ParsedRequests(data.value)))

\* MediaRequest.status_text
status_text(status) ==
    CASE status = 1 -> "Pending"
      [] status = 2 -> "Approved"
      [] status = 3 -> "Declined"
      [] OTHER -> "Unknown"

\* the detail JSON as title enrichment reads it: "title" and "name", each
\* possibly absent
TitleBody(title, name) == [title |-> title, name |-> name]

\* if req.media and req.media.tmdbId
HasTmdbId(req) == ~req.media.none /\ req.media.tmdbId # 0

\* the try block that resolves a request's title: the detail fetch, and
\* "Unknown" when it raises OverseerrError; any other exception leaves the
\* block
EnrichTitle(req, dreply) ==
    LET movie == req.type = MOVIE
        data == OverseerrRequest(dreply)
        get == Call("overseerr", "GET", IF movie THEN "/movie" ELSE "/tv",
                    req.media.tmdbId, NoPayload, dreply, data)
        key == IF movie THEN data.value.title ELSE data.value.name
    IN  IF ~data.ok
        THEN [title |-> "Unknown", calls |-> <<get>>,
              exc |-> IF data.exc.type = "OverseerrError" THEN NoExc ELSE data.exc]
        ELSE [title |-> IF ~key.none THEN key.s
                        ELSE IF movie THEN "Unknown Movie" ELSE "Unknown TV Show",
              calls |-> <<get>>, exc |-> NoExc]

\* the title of one request: "Unknown" without a TMDB id, else enriched
TitleOf(req, dreply) ==
    IF HasTmdbId(req) THEN EnrichTitle(req, dreply)
    ELSE [title |-> "Unknown", calls |-> <<>>, exc |-> NoExc]

\* the record get_requests_with_media_info builds; requested_by (a name) is
\* left out, user_id is 0 for None
RequestSummary(req, title) ==
    [id |-> req.id, title |-> title, type |-> req.type, status |-> status_text(req.status),
     requested_at |-> req.createdAt, user_id |-> req.requestedBy.id]

\* if req_time < since_time: continue
BeforeSince(req, since) ==
    ~since.none /\ StripTz(req.createdAt).wall < StripTz(since).wall

RECURSIVE EnrichedSince(_, _, _)
\* get_requests_with_media_info, the loop over the requests: [records,
\* calls, exc]; dreplies answer the detail fetches in the order they are made
EnrichedSince(requests, since, dreplies) ==
    IF requests = <<>> THEN [records |-> <<>>, calls |-> <<>>, exc |-> NoExc]
    ELSE LET req == Head(requests)
             got == TitleOf(req, Head(dreplies))
             rest == EnrichedSince(Tail(requests), since,
                                   IF got.calls = <<>> THEN dreplies ELSE Tail(dreplies))
         IN  IF BeforeSince(req, since) THEN EnrichedSince(Tail(requests), since, dreplies)
             ELSE IF got.exc # NoExc
             THEN [records |-> <<>>, calls |-> got.calls, exc |-> got.exc]
             ELSE [records |-> <<RequestSummary(req, got.title)>> \o rest.records,
                   calls |-> got.calls \o rest.calls, exc |-> rest.exc]

\* OverseerrClient.get_requests_with_media_info; rreply answers GET /request
get_requests_with_media_info(status, since, take, rreply, dreplies) ==
    LET listed == client_get_requests(status, take, rreply)
        enriched == EnrichedSince(listed.result.value, since, dreplies)
    IN  IF ~listed.result.ok THEN listed
        ELSE IF enriched.exc # NoExc
        THEN Done("OverseerrClient", listed.calls \o enriched.calls, Raise(enriched.exc))
        ELSE Done("OverseerrClient", listed.calls \o enriched.calls,
                  Return(enriched.records))

\* the record get_user_requests builds
UserRequestSummary(req, title) ==
    [id |-> req.id, title |-> title, type |-> req.type, status |-> status_text(req.status),
     requested_at |-> req.createdAt]

RECURSIVE EnrichedUser(_, _)
\* get_user_requests, the loop over the user's requests
EnrichedUser(requests, dreplies) ==
    IF requests = <<>> THEN [records |-> <<>>, calls |-> <<>>, exc |-> NoExc]
    ELSE LET req == Head(requests)
             got == TitleOf(req, Head(dreplies))
             rest == EnrichedUser(Tail(requests),
                                  IF got.calls = <<>> THEN dreplies ELSE Tail(dreplies))
         IN  IF got.exc # NoExc
             THEN [records |-> <<>>, calls |-> got.calls, exc |-> got.exc]
             ELSE [records |-> <<UserRequestSummary(req, got.title)>> \o rest.records,
                   calls |-> got.calls \o rest.calls, exc |-> rest.exc]

\* get_user_requests asks for this many requests
UserRequestsTake == 100

\* OverseerrClient.get_user_requests; ureply answers GET /user/{user_id},
\* rreply GET /request
client_get_user_requests(user_id, ureply, rreply, dreplies) ==
    LET user == get_user(user_id, ureply)
        all_requests == client_get_requests("None", UserRequestsTake, rreply)
        user_requests == SelectSeq(all_requests.result.value,
                                   LAMBDA r : ~r.requestedBy.none /\ r.requestedBy.id = user_id)
        enriched == EnrichedUser(user_requests, dreplies)
        calls == user.calls \o all_requests.calls
    IN  IF ~user.result.ok THEN user
        ELSE IF ~all_requests.result.ok THEN Done("OverseerrClient", calls, all_requests.result)
        ELSE IF enriched.exc # NoExc
        THEN Done("OverseerrClient", calls \o enriched.calls, Raise(enriched.exc))
        ELSE Done("OverseerrClient", calls \o enriched.calls,
                  Return([user |-> user.result.value.name, user_id |-> user_id,
                          request_count |-> Len(enriched.records),
                          requests |-> enriched.records]))

(* --------------------------- the list tools ---------------------------- *)

\* a call that passes a keyword argument the method has no parameter for
\* raises TypeError before the method runs
Bind(parameters, keywords) ==
    IF keywords \subseteq parameters THEN NoExc
    ELSE Exc("TypeError", "got an unexpected keyword argument")

\* the except clauses of search_media, get_requests, get_users and
\* get_user_requests
ListToolExcept(prefix, e) ==
    IF e.type = "OverseerrError" THEN ToolError(prefix, e)
    ELSE ToolError("Unexpected error", e)

\* search_media returns this many hits at most
SearchTop == 20

\* server.search_media; reply answers GET /search
search_media(cl, env, media_type, reply) ==
    LET gc == get_client(cl, env)
        type_filter == IF Truthy(media_type) THEN MediaType(Lower(media_type.s))
                       ELSE Return("None")
        run == client_search_media(type_filter.value, reply)
    IN  IF ~gc.ok THEN Done(gc.client, <<>>, Raise(ListToolExcept("Search failed", gc.exc)))
        ELSE IF ~type_filter.ok
        THEN Done(gc.client, <<>>, Raise(ListToolExcept("Search failed", type_filter.exc)))
        ELSE IF ~run.result.ok
        THEN Done(gc.client, run.calls, Raise(ListToolExcept("Search failed", run.result.exc)))
        ELSE Done(gc.client, run.calls,
                  Return([count |-> Len(run.result.value),
                          results |-> Take(run.result.value, SearchTop)]))

\* server.get_users; reply answers GET /user
get_users(cl, env, reply) ==
    LET gc == get_client(cl, env)
        run == client_get_users(reply)
    IN  IF ~gc.ok
        THEN Done(gc.client, <<>>, Raise(ListToolExcept("Failed to get users", gc.exc)))
        ELSE IF ~run.result.ok
        THEN Done(gc.client, run.calls,
                  Raise(ListToolExcept("Failed to get users", run.result.exc)))
        ELSE Done(gc.client, run.calls,
                  Return([count |-> Len(run.result.value), users |-> run.result.value]))

\* the parameters of OverseerrClient.get_requests_with_media_info
get_requests_with_media_info_parameters == {"status", "since", "take"}

\* the parameters of OverseerrClient.get_user_requests
get_user_requests_parameters == {"user_id"}

\* get_requests and get_user_requests: take_count with show_all
ShowAllTake == 10000

\* limit when the caller gives none
DefaultLimit == 20

\* get_requests: the filter sent upstream, media_status before status
ApiFilter(status, media_status) ==
    IF Truthy(media_status)
    THEN IF Lower(media_status.s) \in {<<"a","v","a","i","l","a","b","l","e">>,
                                       <<"p","r","o","c","e","s","s","i","n","g">>,
                                       <<"u","n","a","v","a","i","l","a","b","l","e">>,
                                       <<"f","a","i","l","e","d">>}
         THEN Str(Lower(media_status.s)) ELSE None
    ELSE IF Truthy(status)
    THEN IF Lower(status.s) \in {<<"p","e","n","d","i","n","g">>,
                                 <<"a","p","p","r","o","v","e","d">>}
         THEN Str(Lower(status.s)) ELSE None
    ELSE None

\* get_requests: the display text the client-side filter looks for, "None"
\* when it does not filter
ClientSideTarget(status, media_status) ==
    IF Truthy(media_status) /\ Truthy(status)
    THEN IF Lower(status.s) = <<"p","e","n","d","i","n","g">> THEN "Pending"
         ELSE IF Lower(status.s) = <<"a","p","p","r","o","v","e","d">> THEN "Approved"
         ELSE "None"
    ELSE "None"

\* server.get_requests; days is 0 for None, now is datetime.now(), rreply
\* answers GET /request.  The records of the client have no "request_status"
\* key, so r.get("request_status") is None for each of them.
get_requests(cl, env, status, media_status, days, limit, show_all, now, rreply, dreplies) ==
    LET gc == get_client(cl, env)
        api_filter == ApiFilter(status, media_status)
        target == ClientSideTarget(status, media_status)
        since == IF days # 0 THEN DateTime(now.wall - 24 * days, FALSE, 0) ELSE NoSince
        take_count == IF show_all THEN ShowAllTake ELSE limit
        bound == Bind(get_requests_with_media_info_parameters, {"filter_by", "since", "take"})
        run == get_requests_with_media_info(api_filter, since, take_count, rreply, dreplies)
        requests == IF target # "None"
                    THEN SelectSeq(run.result.value, LAMBDA r : "None" = target)
                    ELSE run.result.value
    IN  IF ~gc.ok
        THEN Done(gc.client, <<>>, Raise(ListToolExcept("Failed to get requests", gc.exc)))
        ELSE IF bound # NoExc
        THEN Done(gc.client, <<>>, Raise(ListToolExcept("Failed to get requests", bound)))
        ELSE IF ~run.result.ok
        THEN Done(gc.client, run.calls,
                  Raise(ListToolExcept("Failed to get requests", run.result.exc)))
        ELSE Done(gc.client, run.calls,
                  Return([count |-> Len(requests), requests |-> requests]))

\* get_user_requests: status_map.get(media_status.lower())
StatusFilter(media_status) ==
    IF ~Truthy(media_status) THEN "None"
    ELSE LET key == Lower(media_status.s)
         IN  IF key = <<"p","r","o","c","e","s","s","i","n","g">> THEN "Processing"
             ELSE IF key = <<"a","v","a","i","l","a","b","l","e">> THEN "Available"
             ELSE IF key = <<"p","a","r","t","i","a","l","l","y","_",
                             "a","v","a","i","l","a","b","l","e">>
             THEN "Partially Available"
             ELSE IF key = <<"r","e","q","u","e","s","t","e","d">> THEN "Requested"
             ELSE IF key = <<"n","o","t","_","r","e","q","u","e","s","t","e","d">>
             THEN "Not Requested"
             ELSE "None"

\* server.get_user_requests; ureply answers GET /user/{user_id}, rreply
\* GET /request
get_user_requests(cl, env, user_id, media_status, limit, show_all, ureply, rreply, dreplies) ==
    LET gc == get_client(cl, env)
        status_filter == StatusFilter(media_status)
        take_count == IF show_all THEN ShowAllTake ELSE limit
        bound == Bind(get_user_requests_parameters, {"media_status_filter", "limit"})
        run == client_get_user_requests(user_id, ureply, rreply, dreplies)
    IN  IF ~gc.ok
        THEN Done(gc.client, <<>>,
                  Raise(ListToolExcept("Failed to get user requests", gc.exc)))
        ELSE IF bound # NoExc
        THEN Done(gc.client, <<>>,
                  Raise(ListToolExcept("Failed to get user requests", bound)))
        ELSE IF ~run.result.ok
        THEN Done(gc.client, run.calls,
                  Raise(ListToolExcept("Failed to get user requests", run.result.exc)))
        ELSE Done(gc.client, run.calls, run.result)

(* ------------------------------ catalog client ------------------------- *)

\* PlexClient.get_status; reply answers GET /identity
plex_get_status(reply) ==
    LET data == PlexRequest(reply)
        get == Call("plex", "GET", "/identity", 0, NoPayload, reply, data)
    IN  IF ~data.ok THEN Done("PlexClient", <<get>>, data)
        ELSE Done("PlexClient", <<get>>,
                  Return([version |-> data.value.version,
                          machine_id |-> data.value.machineIdentifier]))

\* The catalog's strings (section types, keys, the media_type filter) are
\* never transformed, so they are plain strings here; an Optional[str]
\* argument of the catalog client is [none, s].
PlexNone == [none |-> TRUE, s |-> ""]

PlexStr(s) == [none |-> FALSE, s |-> s]

\* truth value of such an argument: None and "" are falsy
PlexTruthy(o) == ~o.none /\ o.s # ""

\* search_library returns once it holds this many results
SearchCap == 50

\* one entry of MediaContainer.Directory, reduced to what the client reads:
\* "type" ("" when absent) and whether "key" and "title" are both present
Directory(key, type, keyed) ==
    [key |-> key, title |-> key, type |-> type, keyed |-> keyed]

\* PlexLibrarySection(key=d["key"], title=d["title"], type=section_type):
\* indexing a directory that lacks the key raises KeyError
PlexLibrarySection(d, section_type) ==
    IF ~d.keyed THEN Raise(Exc("KeyError", "key"))
    ELSE Return([key |-> d.key, title |-> d.title, type |-> section_type])

RECURSIVE LibrarySections(_, _)
\* get_library_sections, the loop over the directories: the sections of type
\* movie or show in upstream order, or the error of the first one that fails
LibrarySections(directories, sections) ==
    IF directories = <<>> THEN Return(sections)
    ELSE LET d == Head(directories)
         IN  IF d.type \in {"movie", "show"}
             THEN LET made == PlexLibrarySection(d, d.type)
                  IN  IF made.ok
                      THEN LibrarySections(Tail(directories), Append(sections, made.value))
                      ELSE made
             ELSE LibrarySections(Tail(directories), sections)

\* search_library: the sections a media_type filter selects
SelectSections(sections, media_type) ==
    IF PlexTruthy(media_type)
    THEN LET plex_type == IF media_type.s = "tv" THEN "show" ELSE media_type.s
         IN  SelectSeq(sections, LAMBDA sec : sec.type = plex_type)
    ELSE sections

\* the section type passed on as it is
NormalizedType_Raw(type) == type

\* search_library: Plex's "show" becomes "tv"
NormalizedType(type) == IF type = "show" THEN "tv" ELSE type

\* a "year" of a Metadata entry: an integer, or something that is not one
Year(n) == [int |-> TRUE, n |-> n]

NotAYear == [int |-> FALSE, n |-> 0]

\* PlexMediaItem(title=..., year=item.get("year"), ..., media_type=...):
\* year is Optional[int], anything else fails validation
PlexMediaItem(item, media_type) ==
    IF ~item.year.int THEN Raise(Exc("ValidationError", "year"))
    ELSE Return([title |-> item.title, year |-> item.year.n, media_type |-> media_type])

\* the cap looked at only once a section's items are all appended
RECURSIVE AppendItems_CapPerSection(_, _, _)
AppendItems_CapPerSection(results, metadata_list, normalized_type) ==
    IF metadata_list = <<>>
    THEN [results |-> results, full |-> Len(results) >= SearchCap, exc |-> NoExc]
    ELSE LET made == PlexMediaItem(Head(metadata_list), normalized_type)
         IN  IF ~made.ok THEN [results |-> results, full |-> FALSE, exc |-> made.exc]
             ELSE AppendItems_CapPerSection(Append(results, made.value),
                                            Tail(metadata_list), normalized_type)

RECURSIVE AppendItems(_, _, _)
\* search_library, the loop over one section's Metadata: [results, full, exc],
\* full when the loop returned at the cap, exc when an item failed to build
AppendItems(results, metadata_list, normalized_type) ==
    IF metadata_list = <<>> THEN [results |-> results, full |-> FALSE, exc |-> NoExc]
    ELSE LET made == PlexMediaItem(Head(metadata_list), normalized_type)
         IN  IF ~made.ok THEN [results |-> results, full |-> FALSE, exc |-> made.exc]
             ELSE LET more == Append(results, made.value)
                  IN  IF Len(more) >= SearchCap
                      THEN [results |-> more, full |-> TRUE, exc |-> NoExc]
                      ELSE AppendItems(more, Tail(metadata_list), normalized_type)

\* a catalog-client invocation that has not started
NewTask ==
    [pc |-> "new", op |-> "none", media_type |-> PlexNone, listing |-> <<>>,
     sections |-> <<>>, queried |-> <<>>, results |-> <<>>, result |-> Return(<<>>)]

\* get_library_sections returns
SectionsDone(task, sections) == [task EXCEPT !.pc = "done", !.result = Return(sections)]

\* search_library from the section filter to its next await: the request for
\* the first selected section, or the return when none is selected
BeginSearch(task, sections) ==
    LET selected == SelectSections(sections, task.media_type)
    IN  IF selected = <<>> THEN [task EXCEPT !.pc = "done", !.result = Return(<<>>)]
        ELSE [task EXCEPT !.pc = "await_section", !.sections = selected]

\* what the invocation does with the sections get_library_sections gave it
WithSections(task, sections) ==
    IF task.op = "get_library_sections" THEN SectionsDone(task, sections)
    ELSE BeginSearch([task EXCEPT !.listing = sections], sections)

\* search_library resumed by the reply for the section it awaits
SearchResumed(task, reply) ==
    LET section == task.sections[Len(task.queried) + 1]
        data == PlexRequest(reply)
        queried == Append(task.queried, [key |-> section.key, reply |-> reply])
        got == AppendItems(task.results, data.value, NormalizedType(section.type))
    IN  IF ~data.ok THEN [task EXCEPT !.pc = "done", !.queried = queried, !.result = data]
        ELSE IF got.exc # NoExc
        THEN [task EXCEPT !.pc = "done", !.queried = queried, !.result = Raise(got.exc)]
        ELSE IF got.full \/ Len(queried) = Len(task.sections)
        THEN [task EXCEPT !.pc = "done", !.queried = queried, !.results = got.results,
                          !.result = Return(got.results)]
        ELSE [task EXCEPT !.queried = queried, !.results = got.results]

(* ------------------------------- inputs -------------------------------- *)

\* OVERSEERR_URL and OVERSEERR_API_KEY as the process may find them
Urls == {<<>>, <<"/">>, <<"h","/">>}

ApiKeys == {<<>>, <<"k">>}

Environs == [OVERSEERR_URL : Urls, OVERSEERR_API_KEY : ApiKeys]

TmdbIds == {603}

MediaTypeArgs == {<<"m","o","v","i","e">>, <<"T","V">>, <<"s","h","o","w">>}

SeasonsArgs ==
    {None, Str(<<>>), Str(<<"A","l","l">>), Str(<<"3">>),
     Str(<<"2",","," ","1">>), Str(<<"a",",","b">>)}

SeasonNumbers == 0..4

\* season listings: up to MaxSeasons seasons, no season number twice, any order
SeasonLists ==
    LET numbered == UNION {[1..n -> SeasonNumbers] : n \in 0..MaxSeasons}
        distinct == {l \in numbered : \A i, j \in 1..Len(l) : i # j => l[i] # l[j]}
    IN  {[i \in 1..Len(l) |-> [seasonNumber |-> l[i]]] : l \in distinct}

\* per-season status codes upstream reports; 6 is outside 1..5
SeasonStatusCodes == {2, 5, 6}

InfoSeasonNumbers == <<1, 2>>

\* mediaInfo.seasons: one entry per season the media-info block knows, by
\* season number; a season may be missing from it
InfoSeasonLists ==
    LET known == [1..Len(InfoSeasonNumbers) -> SeasonStatusCodes \cup {0}]
        entries(f) == SelectSeq([i \in 1..Len(InfoSeasonNumbers) |->
                                    [seasonNumber |-> InfoSeasonNumbers[i], status |-> f[i]]],
                                LAMBDA e : e.status # 0)
    IN  {entries(f) : f \in known}

\* no reply: the call is not issued
NoReply == [kind |-> "none", status |-> 0, json |-> NoValue, text |-> ""]

\* replies to GET /tv/{id} as request_media reads them
TvDetailReplies ==
    {HttpReply(200, DetailBody(sl, NoMediaInfo)) : sl \in SeasonLists}
    \cup {HttpReply(200, DetailBody(sl, MediaInfoBlock(2, <<>>, il))) :
            sl \in SeasonLists, il \in InfoSeasonLists \ {<<>>}}
    \cup FailureReplies

\* replies to GET /movie/{id}
MovieDetailReplies ==
    {HttpReply(200, DetailBody(<<>>, NoMediaInfo)),
     HttpReply(200, DetailBody(<<>>, MediaInfoBlock(5, <<2>>, <<>>)))}
    \cup FailureReplies

\* replies to a detail fetch as get_media_status reads them
StatusDetailReplies(mt) ==
    {HttpReply(200, DetailBody(sl, mi)) :
        sl \in IF mt = TV THEN {l \in SeasonLists : Len(l) <= 2} ELSE {<<>>},
        mi \in {NoMediaInfo} \cup
               {MediaInfoBlock(st, rq, <<>>) : st \in {1, 3, 5, 7},
                                              rq \in {<<>>, <<1>>, <<3, 2>>, <<9>>}}}
    \cup FailureReplies

\* replies to POST /request
CreateReplies(mt) ==
    {HttpReply(201, [valid |-> v, id |-> 1, status |-> 1, type |-> mt]) : v \in BOOLEAN}
    \cup {HttpErrorReply(500), ClientErrorReply}

\* replies to GET /status and to the catalog's GET /identity
StatusReplies ==
    {HttpReply(s, [object |-> TRUE, version |-> "1.33.2", machineIdentifier |-> "m"]) :
        s \in {200, 399}}
    \cup {HttpReply(200, [object |-> FALSE, version |-> "", machineIdentifier |-> ""])}
    \cup FailureReplies

\* the catalog-client invocations of one client's lifetime
Tasks == {1, 2}

MediaTypeFilters ==
    {PlexNone, PlexStr(""), PlexStr("movie"), PlexStr("tv"), PlexStr("show")}

\* MediaContainer.Directory of GET /library/sections: three sections the client
\* keeps; a music section between two it keeps; a show section without its key
DirectoryListings ==
    {<<Directory("1", "movie", TRUE), Directory("2", "show", TRUE),
       Directory("3", "movie", TRUE)>>,
     <<Directory("1", "movie", TRUE), Directory("9", "artist", TRUE),
       Directory("2", "show", TRUE)>>,
     <<Directory("1", "movie", TRUE), Directory("2", "show", FALSE)>>}

SectionsReplies ==
    {HttpReply(200, dirs) : dirs \in DirectoryListings} \cup {HttpErrorReply(500)}

\* MediaContainer.Metadata of one section: n matches, the one at position bad
\* (if any) with a year that is not an integer
Metadata(key, n, bad) ==
    [i \in 1..n |-> [title |-> <<key, i>>,
                     year |-> IF i = bad THEN NotAYear ELSE Year(1999)]]

\* replies to GET /library/sections/{key}/all
SectionReplies(key) ==
    {HttpReply(200, Metadata(key, n, 0)) : n \in {2, SearchCap - MaxMatches, MaxMatches}}
    \cup {HttpReply(200, Metadata(key, 3, 2)), HttpErrorReply(500)}

\* the sequences over S of length at most n
ListsOf(S, n) == UNION {[1..k -> S] : k \in 0..n}

\* a list endpoint answers with a batch, or fails
ListReplies(S, n) == {HttpReply(200, l) : l \in ListsOf(S, n)} \cup {HttpErrorReply(500)}

\* hits of GET /search: two well-formed ones, one with a status code outside
\* 1..5, a person, and one MediaSearchResult rejects
SearchItems ==
    {SearchItem(1, "movie", TRUE, NoMediaInfo),
     SearchItem(2, "tv", TRUE, MediaInfoBlock(7, <<>>, <<>>)),
     SearchItem(3, "movie", TRUE, MediaInfoBlock(5, <<>>, <<>>)),
     SearchItem(4, "person", TRUE, NoMediaInfo),
     SearchItem(5, "movie", FALSE, NoMediaInfo)}

UserItems == {UserItem(7, TRUE, "alice"), UserItem(8, TRUE, "bob"), UserItem(9, FALSE, "")}

\* createdAt of a request and since: the same wall-clock readings with and
\* without an offset
CreatedAts ==
    {DateTime(10, TRUE, 0), DateTime(12, TRUE, 0), DateTime(12, TRUE, 2),
     DateTime(12, FALSE, 0)}

Sinces == {NoSince, DateTime(12, TRUE, 0), DateTime(11, TRUE, 1), DateTime(12, FALSE, 0)}

\* requests of GET /request as get_requests reads them: well-formed ones, one
\* whose media block carries a status code outside 1..5, one that lacks a
\* required key
ListedRequestItems ==
    {RequestItem(1, TRUE, 2, DateTime(10, TRUE, 0), MOVIE, Media(601, 5), RequestedBy(7)),
     RequestItem(2, TRUE, 1, DateTime(10, TRUE, 0), TV, Media(602, 7), RequestedBy(7)),
     RequestItem(3, FALSE, 1, DateTime(10, TRUE, 0), MOVIE, NoMedia, NoUser),
     RequestItem(4, TRUE, 1, DateTime(10, TRUE, 0), TV, NoMedia, NoUser)}

\* requests as get_requests_with_media_info reads them
DatedRequestItems ==
    {RequestItem(1, TRUE, 2, c, MOVIE, Media(601, 5), RequestedBy(7)) : c \in CreatedAts}
    \cup {RequestItem(2, TRUE, 1, DateTime(12, TRUE, 0), TV, Media(602, 3), RequestedBy(8)),
          RequestItem(3, TRUE, 1, DateTime(12, TRUE, 0), MOVIE, Media(0, 0), NoUser),
          RequestItem(4, TRUE, 1, DateTime(12, TRUE, 0), TV, NoMedia, NoUser)}

\* requests as get_user_requests reads them
UserRequestItems ==
    {RequestItem(1, TRUE, 2, DateTime(10, TRUE, 0), MOVIE, Media(601, 5), RequestedBy(7)),
     RequestItem(2, TRUE, 1, DateTime(10, TRUE, 0), TV, Media(602, 3), RequestedBy(7)),
     RequestItem(3, TRUE, 1, DateTime(10, TRUE, 0), MOVIE, Media(603, 5), RequestedBy(8)),
     RequestItem(4, TRUE, 1, DateTime(10, TRUE, 0), TV, NoMedia, NoUser),
     RequestItem(5, FALSE, 1, DateTime(10, TRUE, 0), MOVIE, NoMedia, RequestedBy(7))}

UserIds == {7}

\* replies to GET /user/{user_id}
UserReplies ==
    {HttpReply(200, UserItem(7, TRUE, "alice")), HttpReply(200, UserItem(7, FALSE, "")),
     HttpErrorReply(404)}

\* replies to the detail fetch of title enrichment
TitleReplies ==
    {HttpReply(200, TitleBody(PlexStr("T"), PlexStr("T"))),
     HttpReply(200, TitleBody(PlexNone, PlexNone)),
     HttpErrorReply(500), ClientErrorReply, TimeoutReply}

\* one reply for each detail fetch an enriching call can make
TitleReplySeqs == [1..MaxEnriched -> TitleReplies]

\* the take a caller of the client passes
Takes == {20, 50}

\* media_type as a caller of search_media passes it
SearchTypeArgs ==
    {None, Str(<<"m","o","v","i","e">>), Str(<<"T","V">>), Str(<<"s","h","o","w">>)}

\* status and media_status as a caller of get_requests passes them
StatusArgs == {None, Str(<<"P","e","n","d","i","n","g">>), Str(<<"d","o","n","e">>)}

MediaStatusArgs == {None, Str(<<"A","v","a","i","l","a","b","l","e">>)}

\* days of get_requests, 0 for None
DaysArgs == {0, 7}

LimitArgs == {DefaultLimit, 1}

\* datetime.now(): naive local time
Nows == {DateTime(240, FALSE, 0)}

\* no detail fetch is made
NoTitleReplies == [i \in 1..MaxEnriched |-> NoReply]

(* ------------------------------- actions ------------------------------- *)

Idle == [tool |-> "none", args |-> NoValue, calls |-> <<>>, result |-> Return(NoValue)]

\* a catalog client right after construction, nothing invoked on it yet
PlexFresh ==
    /\ _sections_cache = [none |-> TRUE, value |-> <<>>]
    /\ tasks = [t \in Tasks |-> NewTask]
    /\ sections_requests = 0
    /\ cache_writes = <<>>

Init ==
    /\ environ \in Environs
    /\ _client = "None"
    /\ last = Idle
    /\ repeat = "none"
    /\ PlexFresh

\* one tool invocation: the handler has run to its end
Invoke(tool, args, run) ==
    /\ _client' = run.client
    /\ last' = [tool |-> tool, args |-> args, calls |-> run.calls, result |-> run.result]
    /\ repeat' = IF last.tool = "none" THEN "none"
                 ELSE IF run.result = last.result /\ run.calls = last.calls THEN "same"
                 ELSE "differ"
    /\ UNCHANGED <<environ, plexvars>>

\* the replies the upstream is asked for: none when the handler stops before
Asked(reaches, replies) == IF reaches THEN replies ELSE {NoReply}

RequestMedia ==
    /\ last.tool = "none"
    /\ \E tmdb_id \in TmdbIds, media_type \in MediaTypeArgs,
          seasons \in SeasonsArgs, confirm \in BOOLEAN :
         LET mt == ParseMediaType(media_type)
             fetches == get_client(_client, environ).ok /\ mt.ok
         IN  \E dreply \in Asked(fetches, IF mt.value = MOVIE THEN MovieDetailReplies
                                         ELSE TvDetailReplies),
                creply \in Asked(fetches, CreateReplies(mt.value)) :
               Invoke("request_media",
                      [tmdb_id |-> tmdb_id, media_type |-> media_type,
                       seasons |-> seasons, confirm |-> confirm],
                      request_media(_client, environ, tmdb_id, media_type,
                                    seasons, confirm, dreply, creply))

\* the caller repeats a request_media preview before anything else happens,
\* and the upstream answers the detail fetch as it did before
RepeatPreview ==
    /\ last.tool = "request_media"
    /\ ~last.args.confirm
    /\ LET mt == ParseMediaType(last.args.media_type)
           fetches == get_client(_client, environ).ok /\ mt.ok
       IN  \E creply \in Asked(fetches, CreateReplies(mt.value)) :
             Invoke("request_media", last.args,
                    request_media(_client, environ, last.args.tmdb_id,
                                  last.args.media_type, last.args.seasons,
                                  last.args.confirm,
                                  IF last.calls = <<>> THEN NoReply
                                  ELSE last.calls[1].reply,
                                  creply))

\* the caller answers a request_media preview by repeating the call with
\* confirm=true, and the upstream answers the detail fetch as it did before
ConfirmPreview ==
    /\ last.tool = "request_media"
    /\ ~last.args.confirm
    /\ last.result.ok
    /\ \E creply \in CreateReplies(ParseMediaType(last.args.media_type).value) :
         Invoke("request_media", [last.args EXCEPT !.confirm = TRUE],
                request_media(_client, environ, last.args.tmdb_id,
                              last.args.media_type, last.args.seasons, TRUE,
                              last.calls[1].reply, creply))

GetMediaStatus ==
    /\ last.tool = "none"
    /\ \E tmdb_id \in TmdbIds, media_type \in MediaTypeArgs :
         LET mt == ParseMediaType(media_type)
             fetches == get_client(_client, environ).ok /\ mt.ok
         IN  \E dreply \in Asked(fetches, StatusDetailReplies(mt.value)) :
               Invoke("get_media_status",
                      [tmdb_id |-> tmdb_id, media_type |-> media_type],
                      get_media_status(_client, environ, tmdb_id, media_type, dreply))

HealthCheck ==
    /\ last.tool = "none"
    /\ \E sreply \in Asked(get_client(_client, environ).ok, StatusReplies) :
         Invoke("health_check", NoValue, health_check(_client, environ, sreply))

\* a catalog-client call; it leaves the request-service client alone
PlexGetStatus ==
    /\ last.tool = "none"
    /\ \E reply \in StatusReplies :
         Invoke("plex.get_status", NoValue,
                [plex_get_status(reply) EXCEPT !.client = _client])

SearchMedia ==
    /\ last.tool = "none"
    /\ \E media_type \in SearchTypeArgs :
         LET fetches == /\ get_client(_client, environ).ok
                        /\ (Truthy(media_type) => MediaType(Lower(media_type.s)).ok)
         IN  \E reply \in Asked(fetches, ListReplies(SearchItems, MaxItems)) :
               Invoke("search_media", [media_type |-> media_type],
                      search_media(_client, environ, media_type, reply))

GetUsers ==
    /\ last.tool = "none"
    /\ \E reply \in Asked(get_client(_client, environ).ok, ListReplies(UserItems, MaxItems)) :
         Invoke("get_users", NoValue, get_users(_client, environ, reply))

GetRequests ==
    /\ last.tool = "none"
    /\ \E status \in StatusArgs, media_status \in MediaStatusArgs, days \in DaysArgs,
          limit \in LimitArgs, show_all \in BOOLEAN, now \in Nows :
         LET fetches == /\ get_client(_client, environ).ok
                        /\ Bind(get_requests_with_media_info_parameters,
                                {"filter_by", "since", "take"}) = NoExc
         IN  \E rreply \in Asked(fetches, ListReplies(DatedRequestItems, MaxEnriched)),
                dreplies \in IF fetches THEN TitleReplySeqs ELSE {NoTitleReplies} :
               Invoke("get_requests",
                      [status |-> status, media_status |-> media_status, days |-> days,
                       limit |-> limit, show_all |-> show_all],
                      get_requests(_client, environ, status, media_status, days, limit,
                                   show_all, now, rreply, dreplies))

GetUserRequests ==
    /\ last.tool = "none"
    /\ \E user_id \in UserIds, media_status \in MediaStatusArgs,
          limit \in LimitArgs, show_all \in BOOLEAN :
         LET fetches == /\ get_client(_client, environ).ok
                        /\ Bind(get_user_requests_parameters,
                                {"media_status_filter", "limit"}) = NoExc
         IN  \E ureply \in Asked(fetches, UserReplies),
                rreply \in Asked(fetches, ListReplies(UserRequestItems, MaxEnriched)),
                dreplies \in IF fetches THEN TitleReplySeqs ELSE {NoTitleReplies} :
               Invoke("get_user_requests",
                      [user_id |-> user_id, media_status |-> media_status,
                       limit |-> limit, show_all |-> show_all],
                      get_user_requests(_client, environ, user_id, media_status, limit,
                                        show_all, ureply, rreply, dreplies))

\* the caller takes the result
Respond ==
    /\ last.tool # "none"
    /\ last' = Idle
    /\ repeat' = "none"
    /\ UNCHANGED <<environ, _client, plexvars>>

Next ==
    \/ RequestMedia
    \/ RepeatPreview
    \/ ConfirmPreview
    \/ GetMediaStatus
    \/ HealthCheck
    \/ SearchMedia
    \/ GetUsers
    \/ GetRequests
    \/ GetUserRequests
    \/ PlexGetStatus
    \/ Respond

Spec == Init /\ [][Next]_vars

(* ------------------- the catalog client, concurrently ------------------ *)

\* One PlexClient and the invocations of get_library_sections and
\* search_library made on it.  asyncio runs an invocation without interruption
\* from one await of an upstream reply to the next, so a step is: start an
\* invocation and run it to its first request, or deliver the reply an
\* invocation awaits and run it to its next request or its return.

PlexInit ==
    /\ environ = [OVERSEERR_URL |-> <<"h","/">>, OVERSEERR_API_KEY |-> <<"k">>]
    /\ _client = "None"
    /\ last = Idle
    /\ repeat = "none"
    /\ PlexFresh

\* an invocation starts: the cache check of get_library_sections, and on a
\* miss the request for /library/sections
Start(t) ==
    /\ tasks[t].pc = "new"
    /\ \E op \in {"get_library_sections", "search_library"} :
         \E media_type \in IF op = "search_library" THEN MediaTypeFilters ELSE {PlexNone} :
           LET task == [tasks[t] EXCEPT !.op = op, !.media_type = media_type]
           IN  IF ~_sections_cache.none
               THEN /\ tasks' = [tasks EXCEPT ![t] = WithSections(task, _sections_cache.value)]
                    /\ UNCHANGED sections_requests
               ELSE /\ tasks' = [tasks EXCEPT ![t] = [task EXCEPT !.pc = "await_sections"]]
                    /\ sections_requests' = sections_requests + 1
    /\ UNCHANGED <<_sections_cache, cache_writes, toolvars>>

\* the reply to GET /library/sections arrives: get_library_sections builds
\* the sections, stores them in the cache and returns them
SectionsReply(t) ==
    /\ tasks[t].pc = "await_sections"
    /\ \E reply \in SectionsReplies :
         LET data == PlexRequest(reply)
             made == IF data.ok THEN LibrarySections(data.value, <<>>) ELSE data
         IN  IF made.ok
             THEN /\ _sections_cache' = [none |-> FALSE, value |-> made.value]
                  /\ cache_writes' = Append(cache_writes, made.value)
                  /\ tasks' = [tasks EXCEPT ![t] = WithSections(tasks[t], made.value)]
             ELSE /\ tasks' = [tasks EXCEPT ![t] = [@ EXCEPT !.pc = "done", !.result = made]]
                  /\ UNCHANGED <<_sections_cache, cache_writes>>
    /\ UNCHANGED <<sections_requests, toolvars>>

\* the reply for the section a search awaits arrives
SectionReply(t) ==
    /\ tasks[t].pc = "await_section"
    /\ \E reply \in SectionReplies(tasks[t].sections[Len(tasks[t].queried) + 1].key) :
         tasks' = [tasks EXCEPT ![t] = SearchResumed(tasks[t], reply)]
    /\ UNCHANGED <<_sections_cache, sections_requests, cache_writes, toolvars>>

PlexNext ==
    \/ \E t \in Tasks : Start(t)
    \/ \E t \in Tasks : SectionsReply(t)
    \/ \E t \in Tasks : SectionReply(t)

PlexSpec == PlexInit /\ [][PlexNext]_vars

(* --------------------- the request-service client --------------------- *)

\* One constructed OverseerrClient and the calls of its list operations and
\* of get_media_status, one at a time.

ClientInit ==
    /\ environ = [OVERSEERR_URL |-> <<"h","/">>, OVERSEERR_API_KEY |-> <<"k">>]
    /\ _client = "OverseerrClient"
    /\ last = Idle
    /\ repeat = "none"
    /\ PlexFresh

ClientSearchMedia ==
    /\ last.tool = "none"
    /\ \E media_type \in {"None", MOVIE, TV}, reply \in ListReplies(SearchItems, MaxItems) :
         Invoke("client.search_media", [media_type |-> media_type],
                client_search_media(media_type, reply))

ClientGetUsers ==
    /\ last.tool = "none"
    /\ \E reply \in ListReplies(UserItems, MaxItems) :
         Invoke("client.get_users", NoValue, client_get_users(reply))

ClientGetRequests ==
    /\ last.tool = "none"
    /\ \E status \in {"None", "pending"}, take \in Takes,
          reply \in ListReplies(ListedRequestItems, MaxItems) :
         Invoke("client.get_requests", [status |-> status, take |-> take],
                client_get_requests(status, take, reply))

GetRequestsWithMediaInfo ==
    /\ last.tool = "none"
    /\ \E since \in Sinces, take \in Takes,
          rreply \in ListReplies(DatedRequestItems, MaxEnriched),
          dreplies \in TitleReplySeqs :
         Invoke("client.get_requests_with_media_info", [since |-> since, take |-> take],
                get_requests_with_media_info("None", since, take, rreply, dreplies))

ClientGetUserRequests ==
    /\ last.tool = "none"
    /\ \E user_id \in UserIds, ureply \in UserReplies,
          rreply \in ListReplies(UserRequestItems, MaxEnriched),
          dreplies \in TitleReplySeqs :
         Invoke("client.get_user_requests", [user_id |-> user_id],
                client_get_user_requests(user_id, ureply, rreply, dreplies))

ClientNext ==
    \/ ClientSearchMedia
    \/ ClientGetUsers
    \/ ClientGetRequests
    \/ GetRequestsWithMediaInfo
    \/ ClientGetUserRequests
    \/ GetMediaStatus
    \/ Respond

ClientSpec == ClientInit /\ [][ClientNext]_vars

(* ------------------------------- claims -------------------------------- *)

IsRequestMedia == last.tool = "request_media"

\* the detail fetch of the last invocation was answered with data
DetailFetched == Len(last.calls) >= 1 /\ last.calls[1].raised = NoExc

\* the media type the last invocation named, "" when it is not a media type
LastMediaType ==
    IF Lower(last.args.media_type) = <<"m","o","v","i","e">> THEN MOVIE
    ELSE IF Lower(last.args.media_type) = <<"t","v">> THEN TV
    ELSE ""

\* the seasons of the fetched detail that are not specials
LastRegularSeasons ==
    SelectSeq(last.calls[1].reply.json.seasons, LAMBDA s : s.seasonNumber # 0)

Creates == {i \in 1..Len(last.calls) : last.calls[i].method = "POST"}

\* C1: a request_media call with confirm=false issues no POST /request; its
\* only upstream call, if any, is the detail fetch; and a preview repeated
\* against an upstream that answers as before returns what it returned before.
C1_PreviewIsReadOnly ==
    (IsRequestMedia /\ ~last.args.confirm) =>
        /\ Creates = {}
        /\ Len(last.calls) <= 1
        /\ \A i \in 1..Len(last.calls) :
              /\ last.calls[i].method = "GET"
              /\ last.calls[i].path \in {"/movie", "/tv"}
              /\ last.calls[i].id = last.args.tmdb_id
        /\ repeat # "differ"

C1_Witness ==
    /\ IsRequestMedia /\ ~last.args.confirm /\ LastMediaType = TV
    /\ DetailFetched /\ Len(LastRegularSeasons) = 2
    /\ last.result.ok
    /\ repeat = "same"

\* C2: request_media with confirm=true for a TV show whose detail lists more
\* than one non-special season, called without a seasons argument, fails with
\* the "specify which seasons" tool error and issues no POST /request.
C2_MultiSeasonConfirmRejected ==
    (/\ IsRequestMedia /\ last.args.confirm /\ LastMediaType = TV
     /\ ~Truthy(last.args.seasons)
     /\ DetailFetched /\ Len(LastRegularSeasons) > 1) =>
        /\ ~last.result.ok
        /\ last.result.exc.type = "ToolError"
        /\ last.result.exc.text = "Please specify which seasons to request"
        /\ Creates = {}

C2_Witness ==
    /\ IsRequestMedia /\ last.args.confirm /\ LastMediaType = TV
    /\ last.args.seasons = None
    /\ DetailFetched /\ Len(LastRegularSeasons) = 2
    /\ Len(last.calls[1].reply.json.seasons) = 3
    /\ ~last.result.ok /\ Creates = {}

\* C3: request_media with confirm=true and media_type=movie whose detail
\* fetch is answered with data issues exactly one POST /request, and when
\* that POST is answered with a well-formed success the result is a success.
C3_MovieConfirmCreatesOnce ==
    (IsRequestMedia /\ last.args.confirm /\ LastMediaType = MOVIE /\ DetailFetched) =>
        /\ Cardinality(Creates) = 1
        /\ Len(last.calls) = 2
        /\ (last.calls[2].raised = NoExc /\ last.calls[2].reply.json.valid) =>
              (last.result.ok /\ last.result.value.success)

C3_Witness ==
    /\ IsRequestMedia /\ last.args.confirm /\ LastMediaType = MOVIE
    /\ Cardinality(Creates) = 1
    /\ last.result.ok /\ last.result.value.success

\* the tool-input errors: a media_type that is no media type, a season list
\* that does not parse, a confirm without a resolvable season selection
InvalidMediaType ==
    /\ last.tool \in {"request_media", "get_media_status"}
    /\ ~last.result.ok /\ last.result.exc.text = "is not a valid MediaType"

SeasonInputError ==
    /\ IsRequestMedia /\ ~last.result.ok
    /\ last.result.exc.text \in {"invalid literal for int()",
                                 "Please specify which seasons to request"}

\* C4 as stated: every tool-input error of request_media and get_media_status
\* is surfaced without any upstream HTTP request in that invocation.
C4_InputErrorsWithoutUpstream ==
    (InvalidMediaType \/ SeasonInputError) => last.calls = <<>>

\* C4 amended: a media_type that is no media type is rejected by request_media
\* and get_media_status without any upstream request; a season list that does
\* not parse and an unresolved season selection on confirm are surfaced after
\* exactly one upstream request, the detail GET, and without any POST /request.
C4_InputErrorsBeforeCreate ==
    /\ (/\ last.tool \in {"request_media", "get_media_status"}
        /\ LastMediaType = "") => (~last.result.ok /\ last.calls = <<>>)
    /\ InvalidMediaType => last.calls = <<>>
    /\ SeasonInputError =>
          /\ Len(last.calls) = 1
          /\ last.calls[1].method = "GET"
          /\ Creates = {}

C4_Witness ==
    /\ IsRequestMedia /\ last.args.confirm
    /\ last.args.seasons = Str(<<"a", ",", "b">>)
    /\ ~last.result.ok /\ last.result.exc.text = "invalid literal for int()"
    /\ last.result.exc.wraps = <<"Invalid input">>
    /\ Len(last.calls) = 1

SeasonLabels ==
    {"Not Requested", "Requested", "Processing", "Partially Available", "Available"}

IsTvPreview ==
    /\ IsRequestMedia /\ ~last.args.confirm /\ LastMediaType = TV
    /\ DetailFetched /\ last.result.ok

\* C5: the per-season list of a request_media TV preview has no entry for
\* season 0 and every entry's status label is one of Not Requested, Requested,
\* Processing, Partially Available, Available, whatever codes upstream reports.
C5_SeasonLabels ==
    IsTvPreview =>
        \A i \in 1..Len(last.result.value.seasons) :
            /\ last.result.value.seasons[i].season # 0
            /\ last.result.value.seasons[i].status \in SeasonLabels

\* the seasons a preview lists as Not Requested, in listing order
ListedNotRequested ==
    LET picked == SelectSeq(last.result.value.seasons,
                            LAMBDA s : s.status = "Not Requested")
    IN  [i \in 1..Len(picked) |-> picked[i].season]

\* C6: a TV preview of a show with more than one non-special season and no
\* seasons argument selects nothing; if a season is Not Requested the message
\* names at most 3 season numbers, the first Not Requested seasons in listing
\* order; otherwise it says that everything is already requested/available.
C6_MultiSeasonGuidance ==
    (IsTvPreview /\ ~Truthy(last.args.seasons) /\ Len(LastRegularSeasons) > 1) =>
        /\ last.result.value.selected_seasons = None
        /\ IF ListedNotRequested # <<>>
           THEN /\ last.result.value.message.text = "Specify seasons to request"
                /\ Len(last.result.value.message.seasons) \in 1..3
                /\ last.result.value.message.seasons =
                      SubSeq(ListedNotRequested, 1, Len(last.result.value.message.seasons))
           ELSE last.result.value.message =
                    Message("All seasons already requested/available", <<>>)

C6_Witness ==
    /\ IsTvPreview /\ last.args.seasons = None
    /\ Len(ListedNotRequested) = 4
    /\ ListedNotRequested[1] > ListedNotRequested[2]
    /\ Len(last.result.value.message.seasons) = 3

\* C7: for a TV show with exactly one non-special season and no seasons
\* argument, the preview selects that season and tells the caller to call
\* again with confirm=true for that season, and the confirm call posts a
\* request whose season list is that one season number.
C7_SingleSeasonAutoSelect ==
    (/\ IsRequestMedia /\ LastMediaType = TV /\ ~Truthy(last.args.seasons)
     /\ DetailFetched /\ Len(LastRegularSeasons) = 1) =>
        LET n == LastRegularSeasons[1].seasonNumber
        IN  IF ~last.args.confirm
            THEN /\ last.result.ok
                 /\ last.result.value.selected_seasons = Str(IntToStr(n))
                 /\ last.result.value.message =
                        Message("Call again with confirm=true to request season", <<n>>)
            ELSE /\ Len(last.calls) = 2
                 /\ last.calls[2].method = "POST"
                 /\ last.calls[2].payload.seasons = [kind |-> "list", list |-> <<n>>]

\* the season list each explicit seasons argument stands for
ExpectedSeasonList ==
    IF last.args.seasons = Str(<<"3">>) THEN <<3>>
    ELSE IF last.args.seasons = Str(<<"2", ",", " ", "1">>) THEN <<2, 1>>
    ELSE <<>>

\* C8: the body of POST /request carries seasons="all" exactly when the media
\* type is TV and the seasons argument is "all" in any letter case, carries
\* the parsed integers when seasons is an explicit comma-separated list, and
\* carries no seasons key for a movie whatever the seasons argument.
C8_CreatePayloadSeasons ==
    (IsRequestMedia /\ Creates # {}) =>
        \A i \in Creates :
            LET sent == last.calls[i].payload.seasons
                all == /\ Truthy(last.args.seasons)
                       /\ last.args.seasons.s \in {<<"a","l","l">>, <<"A","l","l">>,
                                                   <<"A","L","L">>}
            IN  /\ (sent.kind = "all") <=> (LastMediaType = TV /\ all)
                /\ (LastMediaType = TV /\ Truthy(last.args.seasons) /\ ~all) =>
                      (sent = [kind |-> "list", list |-> ExpectedSeasonList]
                       /\ ExpectedSeasonList # <<>>)
                /\ (LastMediaType = MOVIE) => (sent.kind = "absent")
                /\ last.calls[i].payload.mediaType = LastMediaType
                /\ last.calls[i].payload.mediaId = last.args.tmdb_id

C8_Witness ==
    /\ IsRequestMedia /\ Creates = {2}
    /\ last.args.seasons = Str(<<"2", ",", " ", "1">>)
    /\ last.calls[2].payload.seasons = [kind |-> "list", list |-> <<2, 1>>]

C10_HealthCheckNeverRaises ==
    (last.tool = "health_check") =>
        /\ last.result.ok
        /\ (last.result.value.status = "healthy") =>
              (Len(last.calls) = 1 /\ last.calls[1].raised = NoExc
               /\ last.result.value.error = NoExc)
        /\ (last.calls = <<>> \/ last.calls[1].raised # NoExc) =>
              /\ last.result.value.status \in {"unhealthy", "error"}
              /\ last.result.value.error # NoExc

C10_Witness ==
    /\ last.tool = "health_check"
    /\ _client = "None"
    /\ last.result.ok /\ last.result.value.status = "error"
    /\ last.result.value.error.wraps = <<"Configuration error">>

(* ----------------------- claims: the catalog client -------------------- *)

IsSearch(t) == tasks[t].op = "search_library"

Finished(t) == tasks[t].pc = "done"

RECURSIVE Concat(_)
Concat(seqs) == IF seqs = <<>> THEN <<>> ELSE Head(seqs) \o Concat(Tail(seqs))

\* the matches upstream returned to the section queries of t, in the order
\* the replies arrived, each with the type of the section it came from
Returned(t) ==
    Concat([j \in 1..Len(tasks[t].queried) |->
              LET reply == tasks[t].queried[j].reply
              IN  IF reply.kind = "http" /\ reply.status < 400
                  THEN [i \in 1..Len(reply.json) |->
                          [title |-> reply.json[i].title, valid |-> reply.json[i].year.int,
                           type |-> tasks[t].sections[j].type]]
                  ELSE <<>>])

Titles(items) == [i \in 1..Len(items) |-> items[i].title]

\* the matches the first j section queries of t returned
ReturnedBy(t, j) ==
    Concat([k \in 1..j |-> LET reply == tasks[t].queried[k].reply
                           IN  IF reply.kind = "http" /\ reply.status < 400
                               THEN reply.json ELSE <<>>])

\* C11: over the lifetime of one catalog client, whatever invocations of
\* get_library_sections and search_library run and however they interleave,
\* /library/sections is requested at most once, and once the section cache is
\* populated its content never changes.
C11_SectionsRequestedOnce ==
    /\ sections_requests <= 1
    /\ \A i \in 1..Len(cache_writes) : cache_writes[i] = cache_writes[1]

\* C12: search_library never returns more than 50 items; the items are the
\* first 50 (or all) of what the queried sections returned, in section order
\* then in-section order; the sections are queried in order, and no section
\* is queried once 50 results are held.
C12_SearchCapped ==
    \A t \in Tasks :
        /\ IsSearch(t) =>
              /\ Len(tasks[t].queried) <= Len(tasks[t].sections)
              /\ \A j \in 1..Len(tasks[t].queried) :
                    /\ tasks[t].queried[j].key = tasks[t].sections[j].key
                    /\ Len(ReturnedBy(t, j - 1)) < SearchCap
              /\ tasks[t].pc = "await_section" => Len(tasks[t].results) < SearchCap
        /\ IsSearch(t) /\ Finished(t) /\ tasks[t].result.ok =>
              /\ Len(tasks[t].result.value) <= SearchCap
              /\ Titles(tasks[t].result.value) = Take(Titles(Returned(t)), SearchCap)
              /\ Len(Returned(t)) < SearchCap =>
                    Len(tasks[t].queried) = Len(tasks[t].sections)

\* three sections, the first two return MaxMatches matches each: exactly 50
\* results, and the third section was not queried
C12_Witness ==
    \E t \in Tasks :
        /\ IsSearch(t) /\ Finished(t) /\ tasks[t].result.ok
        /\ Len(tasks[t].sections) = 3
        /\ Len(tasks[t].queried) = 2
        /\ \A j \in 1..2 : Len(tasks[t].queried[j].reply.json) = MaxMatches
        /\ Len(tasks[t].result.value) = SearchCap

\* C13: every item search_library holds or returns has media_type movie or
\* tv, never show, whatever the section listing and the filter; its type is
\* the normalized type of the section it came from; and the filter "tv"
\* selects exactly the sections whose upstream type is show.
C13_NormalizedTypes ==
    \A t \in Tasks :
        IsSearch(t) =>
            /\ \A i \in 1..Len(tasks[t].results) :
                  /\ tasks[t].results[i].media_type \in {"movie", "tv"}
                  /\ tasks[t].results[i].media_type =
                        (IF Returned(t)[i].type = "show" THEN "tv" ELSE "movie")
            /\ Finished(t) /\ tasks[t].result.ok =>
                  \A i \in 1..Len(tasks[t].result.value) :
                      tasks[t].result.value[i].media_type \in {"movie", "tv"}
            /\ tasks[t].media_type = PlexStr("tv") =>
                  tasks[t].sections =
                      SelectSeq(tasks[t].listing, LAMBDA sec : sec.type = "show")

\* a search filtered to "tv" over a listing with movie and show sections
\* returned items, all from the show section
C13_Witness ==
    \E t \in Tasks :
        /\ IsSearch(t) /\ Finished(t) /\ tasks[t].result.ok
        /\ tasks[t].media_type = PlexStr("tv")
        /\ \E i \in 1..Len(tasks[t].listing) : tasks[t].listing[i].type = "movie"
        /\ Len(tasks[t].sections) = 1
        /\ tasks[t].sections[1].type = "show"
        /\ Len(tasks[t].result.value) > 0
        /\ \A i \in 1..Len(tasks[t].result.value) :
              tasks[t].result.value[i].media_type = "tv"

\* C14, the catalog's part: a finished invocation fails only with an upstream
\* error, and a search returns the well-formed matches in order
CatalogDropsMalformed ==
    \A t \in Tasks :
        Finished(t) =>
            /\ ~tasks[t].result.ok => tasks[t].result.exc.type = "PlexError"
            /\ IsSearch(t) /\ tasks[t].result.ok =>
                  Titles(tasks[t].result.value) =
                      Take(Titles(SelectSeq(Returned(t), LAMBDA item : item.valid)), SearchCap)

(* ------------------- claims: the request-service client ---------------- *)

Ids(items) == [i \in 1..Len(items) |-> items[i].id]

\* the batch the list request of the last call was answered with
Batch == last.calls[Len(last.calls) - Len(SelectSeq(last.calls, LAMBDA c : c.path \in {"/movie", "/tv"}))].reply.json

\* the last call is a call of tool whose list request was answered with a batch
Listed(tool) ==
    /\ last.tool = tool
    /\ \A i \in 1..Len(last.calls) :
          last.calls[i].path \notin {"/movie", "/tv"} => last.calls[i].raised = NoExc

\* a request item every key of which is of the type its schema asks for
WellFormedRequest(item) ==
    item.valid /\ item.status \in 1..3 /\ (item.media.none \/ item.media.status \in 0..5)

\* C14, the request service's part: search, get_users and get_requests return
\* exactly the well-formed items of the batch, in order
RequestServiceDropsMalformed ==
    /\ Listed("client.search_media") =>
          /\ last.result.ok
          /\ Ids(last.result.value) =
                Ids(SelectSeq(Batch, LAMBDA item :
                       /\ item.valid
                       /\ item.mediaType \in {"movie", "tv"}
                       /\ last.args.media_type \in {"None", item.mediaType}))
    /\ Listed("client.get_users") =>
          /\ last.result.ok
          /\ Ids(last.result.value) = Ids(SelectSeq(Batch, LAMBDA item : item.valid))
    /\ Listed("client.get_requests") =>
          /\ last.result.ok
          /\ Ids(last.result.value) = Ids(SelectSeq(Batch, WellFormedRequest))

\* C14: for every list operation (search, get_users, get_requests, and the
\* catalog's section and search listings), a batch of well-formed and
\* malformed items returns exactly the well-formed items in their original
\* order; a malformed item never makes the whole call fail.
C14_MalformedItemsDropped == RequestServiceDropsMalformed /\ CatalogDropsMalformed

\* C15: wherever a media availability status code is resolved (search hits,
\* get_media_status, the media block of listed requests), a code outside 1..5
\* resolves to UNKNOWN (1, "Not Requested"), raises nothing, and the item that
\* carries it is not lost.
C15_UnknownStatusCodes ==
    /\ Listed("client.search_media") =>
          LET hits == SelectSeq(Batch, LAMBDA item :
                         /\ item.valid
                         /\ item.mediaType \in {"movie", "tv"}
                         /\ last.args.media_type \in {"None", item.mediaType})
          IN  /\ last.result.ok
              /\ Len(last.result.value) = Len(hits)
              /\ \A i \in 1..Len(hits) :
                    ~hits[i].mediaInfo.none /\ hits[i].mediaInfo.status \notin 1..5 =>
                        /\ last.result.value[i].id = hits[i].id
                        /\ last.result.value[i].status = 1
                        /\ last.result.value[i].status_text = "Not Requested"
    /\ last.tool = "get_media_status" /\ Len(last.calls) = 1
       /\ last.calls[1].raised = NoExc =>
          /\ last.result.ok
          /\ LET info == last.calls[1].reply.json.mediaInfo
             IN  ~info.none /\ info.status \notin 1..5 =>
                    /\ last.result.value.status = 1
                    /\ last.result.value.status_text = "Not Requested"
    /\ Listed("client.get_requests") =>
          /\ last.result.ok
          /\ Ids(last.result.value) =
                Ids(SelectSeq(Batch, LAMBDA item : item.valid /\ item.status \in 1..3))

\* get_user_requests found the user it was asked about
UserFound == last.calls[1].reply.json.valid

\* the requests whose titles the last call had to resolve
Kept ==
    IF last.tool = "client.get_user_requests"
    THEN SelectSeq(ParsedRequests(Batch),
                   LAMBDA r : ~r.requestedBy.none /\ r.requestedBy.id = last.args.user_id)
    ELSE SelectSeq(ParsedRequests(Batch), LAMBDA r : ~BeforeSince(r, last.args.since))

\* the detail fetches of the last call, in the order they were made
DetailFetches == SelectSeq(last.calls, LAMBDA c : c.path \in {"/movie", "/tv"})

\* the records the last call returned
Records ==
    IF last.tool = "client.get_user_requests" THEN last.result.value.requests
    ELSE last.result.value

\* which detail fetch belongs to the i-th request
FetchIndex(i) == Cardinality({j \in 1..i : HasTmdbId(Kept[j])})

\* C18: in get_requests_with_media_info and get_user_requests, a detail fetch
\* that fails makes that request's title "Unknown"; the request is still in
\* the result, the requests after it are still enriched, and the call does
\* not fail.
C18_EnrichmentFailureTolerated ==
    Listed("client.get_requests_with_media_info")
    \/ (Listed("client.get_user_requests") /\ UserFound) =>
        /\ last.result.ok
        /\ Ids(Records) = Ids(Kept)
        /\ Len(DetailFetches) = Cardinality({j \in 1..Len(Kept) : HasTmdbId(Kept[j])})
        /\ \A i \in 1..Len(Kept) :
              HasTmdbId(Kept[i]) =>
                  /\ DetailFetches[FetchIndex(i)].id = Kept[i].media.tmdbId
                  /\ DetailFetches[FetchIndex(i)].raised # NoExc =>
                        Records[i].title = "Unknown"

\* the instant a datetime denotes; one without an offset is read as UTC
Instant(dt) == dt.wall - dt.offset

\* C19: with since given, get_requests_with_media_info returns exactly the
\* fetched requests whose creation instant is not before since (the boundary
\* included), whatever offsets the timestamps carry.
C19_SinceFilter ==
    Listed("client.get_requests_with_media_info") /\ ~last.args.since.none =>
        /\ last.result.ok
        /\ [i \in 1..Len(last.result.value) |->
               <<last.result.value[i].id, last.result.value[i].requested_at>>]
           = LET due == SelectSeq(ParsedRequests(Batch),
                                  LAMBDA r : Instant(r.createdAt) >= Instant(last.args.since))
             IN  [i \in 1..Len(due) |-> <<due[i].id, due[i].createdAt>>]

(* ---------------------- claims: the list tools, set-up ----------------- *)

\* the last invocation ran with a constructed client and no upstream request
\* of it failed
HealthyUpstream ==
    /\ _client = "OverseerrClient"
    /\ \A i \in 1..Len(last.calls) : last.calls[i].raised = NoExc

\* C16: for an existing user and a healthy upstream the get_user_requests
\* tool returns the envelope {user name, user id, count, requests}; the
\* requests are the fetched requests whose requester is user_id, and count is
\* their number.
C16_UserRequestsEnvelope ==
    last.tool = "get_user_requests" /\ HealthyUpstream =>
        /\ last.result.ok
        /\ last.result.value.user_id = last.args.user_id
        /\ last.result.value.count = Len(last.result.value.requests)
        /\ Ids(last.result.value.requests) =
              Ids(SelectSeq(ParsedRequests(last.calls[2].reply.json),
                            LAMBDA r : r.requestedBy.id = last.args.user_id))

\* C17: with a healthy upstream get_requests and get_user_requests return a
\* result, not an error; it holds at most limit records unless show_all is
\* set, and its count is the number of records.
C17_LimitRespected ==
    last.tool \in {"get_requests", "get_user_requests"} /\ HealthyUpstream =>
        /\ last.result.ok
        /\ last.result.value.count = Len(last.result.value.requests)
        /\ ~last.args.show_all => Len(last.result.value.requests) <= last.args.limit

\* the tools that use the request-service client
OverseerrTools ==
    {"search_media", "get_requests", "get_users", "get_user_requests",
     "request_media", "health_check", "get_media_status"}

\* the error an invocation handed to its caller: raised, or (health_check)
\* returned in the result
Surfaced(l) == IF l.result.ok THEN l.result.value.error ELSE l.result.exc

\* the error says which setting is missing, as a configuration error
IsConfigurationError(e) ==
    /\ e.text \in {"OVERSEERR_URL not configured", "OVERSEERR_API_KEY not configured"}
    /\ \E i \in 1..Len(e.wraps) : e.wraps[i] = "Configuration error"

\* C20: the request-service client is constructed on first use and stored;
\* once stored it is never replaced or dropped, and every invocation leaves
\* it stored; a construction that fails for a missing URL or API key reaches
\* the caller as a configuration error, sends nothing upstream, stores
\* nothing, and the next invocation constructs again.
C20_LazySingleton ==
    [][/\ _client # "None" => _client' = _client
       /\ last'.tool \in OverseerrTools =>
             IF OverseerrClientInit(environ).ok
             THEN _client' = "OverseerrClient"
             ELSE /\ _client' = "None"
                  /\ last'.calls = <<>>
                  /\ last'.tool # "health_check" => ~last'.result.ok
                  /\ IsConfigurationError(Surfaced(last'))]_vars

\* an invocation ran right after another one, with the client the first one
\* stored
C20_Witness ==
    /\ _client = "OverseerrClient"
    /\ last.tool \in OverseerrTools
    /\ repeat # "none"

(* ------------------- claims: preview and confirm agree ----------------- *)

\* the messages of a preview that tell the caller to confirm
ConfirmMessages ==
    {"Call again with confirm=true to submit this request",
     "Call again with confirm=true to request season"}

\* the create-request calls of an invocation
CreatesOf(l) == {i \in 1..Len(l.calls) : l.calls[i].method = "POST"}

\* the invocation was rejected as invalid input
RejectedAsInput(l) ==
    /\ ~l.result.ok
    /\ \E i \in 1..Len(l.result.exc.wraps) : l.result.exc.wraps[i] = "Invalid input"

\* C21: when a request_media preview tells the caller to call again with
\* confirm=true, the same call with confirm=true, against an upstream that
\* answers the detail fetch as before and accepts the create request, issues
\* exactly one POST /request and is not rejected as invalid input.
C21_PreviewConfirmAgree ==
    [][(/\ last.tool = "request_media"
        /\ ~last.args.confirm
        /\ last.result.ok
        /\ last.result.value.message.text \in ConfirmMessages
        /\ last'.tool = "request_media"
        /\ last'.args = [last.args EXCEPT !.confirm = TRUE]
        /\ last'.calls[1].reply = last.calls[1].reply
        /\ \A i \in CreatesOf(last') :
              /\ last'.calls[i].raised = NoExc
              /\ last'.calls[i].reply.json.valid)
       => /\ Cardinality(CreatesOf(last')) = 1
          /\ ~RejectedAsInput(last')]_vars

====
